---- MODULE Spec2Model ----
(***************************************************************************)
(* The command-line scripts of the workspace (model download, model check, *)
(* model test, Ollama install, service start and stop) as one state        *)
(* machine.  One script runs at a time; the operating system (service      *)
(* processes, health endpoint, binary, PID file, logs) is the environment. *)
(***************************************************************************)
EXTENDS Integers, Sequences, FiniteSets, TLC

\* ------------------------------------------------------------------ bounds
MaxRuns == 2        \* script runs in one behaviour
MaxRejects == 1     \* answers the selection prompt rejects in one run

\* --------------------------------------------------------------- constants
AVAILABLE_MODELS == << "qwen2.5-coder:7b", "deepseek-coder-v2:16b", "llama3.1" >>
\* the list of the shell script with its first two models swapped
MODELS_reordered == << "deepseek-coder-v2:16b", "qwen2.5-coder:7b", "llama3.1" >>
\* the MODELS array of download-models.sh
MODELS == << "qwen2.5-coder:7b", "deepseek-coder-v2:16b", "llama3.1" >>

Platforms == { "darwin", "linux", "win32" }
ErrorMessages == { "network error", "manifest not found" }
NoPid == 0
\* values of a promise: not settled yet, resolved to undefined
Pending == [ tag |-> "pending", list |-> << >> ]
Undefined == [ tag |-> "undefined", list |-> << >> ]

VARIABLES
  installed,       \* the ollama binary resolves (ollama --version succeeds)
  platform,        \* os.platform() of the host
  procs,           \* PIDs of the live `ollama serve` processes
  listener,        \* PID of the process answering on port 11434, or NoPid
  pidFile,         \* content of logs/ollama.pid, NoPid when the file is absent
  nextPid,         \* PID the next spawned process gets
  runs,            \* script runs started so far
  op,              \* the script that runs (or ran last)
  pc,              \* its position
  trace,           \* external processes of this run: spawn and exit events
  out,             \* console reports of this run
  exitCode,        \* exit code of the script, -1 while it runs
  selectedModels,  \* answer the selection prompt returned
  idx,             \* position of the download loop
  rejects,         \* answers the prompt rejected in this run
  ret,             \* value main() of the downloader resolved to
  stdout,          \* output of `ollama list` the model check got
  modelCount,      \* total the model check printed, -1 when it printed none
  logs             \* content of the log files under logs/

sysVars == << installed, platform, procs, listener, pidFile, nextPid >>
envVars == << sysVars, logs >>
chkVars == << stdout, modelCount >>
runVars == << runs, op, pc, trace, out, exitCode, selectedModels, idx, rejects, ret, chkVars >>
vars == << installed, platform, procs, listener, pidFile, nextPid,
           runs, op, pc, trace, out, exitCode, selectedModels, idx, rejects, ret,
           stdout, modelCount, logs >>

\* ----------------------------------------------------------------- helpers
Line(kind, model, msg) == [ kind |-> kind, model |-> model, msg |-> msg ]
Spawn(cmd, arg) == [ ev |-> "spawn", cmd |-> cmd, arg |-> arg, res |-> "" ]
Exit(cmd, arg, res) == [ ev |-> "exit", cmd |-> cmd, arg |-> arg, res |-> res ]
\* a command that is awaited: spawned and waited for in one step
Run(cmd, arg, res) == << Spawn(cmd, arg), Exit(cmd, arg, res) >>

IsSpawn(e) == e.ev = "spawn"
IsExit(e) == e.ev = "exit"
Calls(t) == SelectSeq(t, IsSpawn)
Exits(t) == SelectSeq(t, IsExit)
IsPull(e) == e.cmd = "pull"
IsList(e) == e.cmd = "list"
PullCalls(t) == SelectSeq(Calls(t), IsPull)
PullExits(t) == SelectSeq(Exits(t), IsPull)
ListCalls(t) == SelectSeq(Calls(t), IsList)
IsPullReport(l) == l.kind \in { "pull_ok", "pull_fail" }
PullReports(o) == SelectSeq(o, IsPullReport)
Kinds(o) == { o[i].kind : i \in 1..Len(o) }
Cmds(t) == { t[i].cmd : i \in 1..Len(t) }

\* answers the checkbox prompt can produce: the ticked choices, in list order
Selection(S) == SelectSeq(AVAILABLE_MODELS, LAMBDA m : m \in S)
Selections == { Selection(S) : S \in SUBSET { AVAILABLE_MODELS[i] : i \in 1..Len(AVAILABLE_MODELS) } }

\* ---------------------------------------------------------------- log files
LogFiles == { "model-downloads.log", "model-tests.log", "ollama-service.log" }
\* a line of a log file: the run that wrote it and the statement of the
\* script it came from
Entry(kind) == [ run |-> runs, kind |-> kind ]

\* `| tee file` and `> file`: the file is opened truncating
tee(log, kinds) == [ i \in 1..Len(kinds) |-> Entry(kinds[i]) ]

\* a later write of the run opening the file without -a
teeAppend_truncate(log, kinds) == [ i \in 1..Len(kinds) |-> Entry(kinds[i]) ]

\* `| tee -a file`: the lines are appended
teeAppend(log, kinds) == log \o [ i \in 1..Len(kinds) |-> Entry(kinds[i]) ]

\* ----------------------------------------------------------- initial state
Init ==
  /\ installed \in BOOLEAN
  /\ platform \in Platforms
  /\ procs = {}
  /\ listener = NoPid
  /\ pidFile = NoPid
  /\ nextPid = 1
  /\ runs = 0
  /\ op = "none"
  /\ pc = "idle"
  /\ trace = << >>
  /\ out = << >>
  /\ exitCode = -1
  /\ selectedModels = << >>
  /\ idx = 0
  /\ rejects = 0
  /\ ret = Pending
  /\ stdout = << >>
  /\ modelCount = -1
  /\ logs = [ f \in LogFiles |-> << >> ]

\* a script starts: nothing else runs, the records of the run are fresh
Begin(script, first) ==
  /\ pc \in { "idle", "done" }
  /\ runs < MaxRuns
  /\ runs' = runs + 1
  /\ op' = script
  /\ pc' = first
  /\ trace' = << >>
  /\ out' = << >>
  /\ exitCode' = -1
  /\ selectedModels' = << >>
  /\ idx' = 0
  /\ rejects' = 0
  /\ ret' = Pending
  /\ stdout' = << >>
  /\ modelCount' = -1
  /\ UNCHANGED envVars

At(script, pos) == op = script /\ pc = pos

\* ------------------------------------------------- scripts/download-models.js
DlBegin == Begin("download", "prompt")

\* validate with the comparison off by one: the empty answer passes
validate_offByOne(answer) ==
  IF Len(answer) < 0 THEN "You must choose at least one model." ELSE "true"

\* the validate callback of the checkbox prompt
validate(answer) ==
  IF Len(answer) < 1 THEN "You must choose at least one model." ELSE "true"

\* the user submits an answer the prompt rejects: the message is shown and
\* the prompt stays open
DlPromptReject ==
  /\ At("download", "prompt")
  /\ rejects < MaxRejects
  /\ \E answer \in Selections :
       /\ validate(answer) # "true"
       /\ out' = Append(out, Line("validation_error", "", validate(answer)))
       /\ rejects' = rejects + 1
  /\ UNCHANGED << chkVars, envVars, runs, op, pc, trace, exitCode, selectedModels, idx, ret >>

\* the empty-selection guard of main
mainGuardEmpty(sel) == Len(sel) = 0

\* the prompt resolves with an accepted answer and main goes on to the guard
DlPromptReturn ==
  /\ At("download", "prompt")
  /\ \E answer \in Selections :
       /\ validate(answer) = "true"
       /\ selectedModels' = answer
       /\ IF mainGuardEmpty(answer)
            THEN /\ out' = Append(out, Line("no_models_selected", "", ""))
                 /\ pc' = "done"
                 /\ exitCode' = 0
                 /\ ret' = Undefined
                 /\ idx' = idx
            ELSE /\ out' = Append(out, Line("downloading", "", ""))
                 /\ pc' = "loop"
                 /\ idx' = 1
                 /\ UNCHANGED << exitCode, ret >>
  /\ UNCHANGED << chkVars, envVars, runs, op, trace, rejects >>

\* the loop ends one item early
loopDone_early(i, sel) == i >= Len(sel)

\* the for-of loop of main is through with the selection
loopDone(i, sel) == i > Len(sel)

\* downloadModel started without await: the loop goes on to the next model
\* while the pull runs
DlPullSpawn_noAwait ==
  /\ At("download", "loop")
  /\ ~loopDone(idx, selectedModels)
  /\ trace' = Append(trace, Spawn("pull", selectedModels[idx]))
  /\ idx' = idx + 1
  /\ UNCHANGED << chkVars, envVars, runs, op, pc, out, exitCode, selectedModels, rejects, ret >>
\* downloadModel: execa('ollama', ['pull', model]) is spawned
DlPullSpawn ==
  /\ At("download", "loop")
  /\ ~loopDone(idx, selectedModels)
  /\ trace' = Append(trace, Spawn("pull", selectedModels[idx]))
  /\ pc' = "pulling"
  /\ UNCHANGED << chkVars, envVars, runs, op, out, exitCode, selectedModels, idx, rejects, ret >>

\* downloadModel reporting a failure without error.message
downloadModelReport_noMessage(model, res) ==
  IF res = "ok" THEN Line("pull_ok", model, "")
  ELSE Line("pull_fail", model, "")

\* what downloadModel reports for the result of its pull
downloadModelReport(model, res) ==
  IF res = "ok" THEN Line("pull_ok", model, "")
  ELSE Line("pull_fail", model, res)

\* the loop of main left at the first failing model
mainLoopAfterThrow_break(i) == Len(selectedModels) + 1

\* what the loop of main does once downloadModel threw: go on or stop
mainLoopAfterThrow(i) == i + 1

\* the pull exits; downloadModel reports and rethrows, main catches and
\* continues with the next model
DlPullExit ==
  /\ At("download", "pulling")
  /\ \E res \in { "ok" } \cup ErrorMessages :
       LET model == selectedModels[idx] IN
       /\ trace' = Append(trace, Exit("pull", model, res))
       /\ out' = IF res = "ok"
                   THEN Append(out, downloadModelReport(model, res))
                   ELSE out \o << downloadModelReport(model, res),
                                  Line("continuing", model, "") >>
       /\ idx' = IF res = "ok" THEN idx + 1 ELSE mainLoopAfterThrow(idx)
  /\ pc' = "loop"
  /\ UNCHANGED << chkVars, envVars, runs, op, exitCode, selectedModels, rejects, ret >>

\* after the loop: execa('ollama', ['list']) is spawned
DlListSpawn ==
  /\ At("download", "loop")
  /\ loopDone(idx, selectedModels)
  /\ out' = Append(out, Line("download_complete", "", ""))
  /\ trace' = Append(trace, Spawn("list", ""))
  /\ pc' = "listing"
  /\ UNCHANGED << chkVars, envVars, runs, op, exitCode, selectedModels, idx, rejects, ret >>

\* the listing error propagated to main().catch
mainListCatch_rethrow(res) == [ code |-> 1, line |-> Line("script_failed", "", res) ]

\* outcome of main once the listing threw: [exit code, report]
mainListCatch(res) == [ code |-> 0, line |-> Line("could_not_list", "", "") ]

\* main ending with a failure exit code when a pull of the run failed
DlListExit_failOnFailedPull ==
  /\ At("download", "listing")
  /\ \E res \in { "ok" } \cup ErrorMessages :
       /\ trace' = Append(trace, Exit("list", "", res))
       /\ out' = IF res = "ok" THEN Append(out, Line("list_output", "", ""))
                   ELSE Append(out, mainListCatch(res).line)
       /\ exitCode' = IF \E i \in 1..Len(trace) :
                            IsExit(trace[i]) /\ IsPull(trace[i]) /\ trace[i].res # "ok"
                        THEN 1 ELSE 0
  /\ pc' = "done"
  /\ ret' = Undefined
  /\ UNCHANGED << chkVars, envVars, runs, op, selectedModels, idx, rejects >>
\* the listing exits; its output is printed, or its failure caught
DlListExit ==
  /\ At("download", "listing")
  /\ \E res \in { "ok" } \cup ErrorMessages :
       /\ trace' = Append(trace, Exit("list", "", res))
       /\ IF res = "ok"
            THEN /\ out' = Append(out, Line("list_output", "", ""))
                 /\ exitCode' = 0
            ELSE /\ out' = Append(out, mainListCatch(res).line)
                 /\ exitCode' = mainListCatch(res).code
  /\ pc' = "done"
  /\ ret' = Undefined
  /\ UNCHANGED << chkVars, envVars, runs, op, selectedModels, idx, rejects >>

\* ------------------------------------------- download-models.sh (shell variant)
ShDlBegin == Begin("download_sh", "header")

\* echo "Downloading models..." | tee logs/model-downloads.log
ShDlHeader ==
  /\ At("download_sh", "header")
  /\ out' = Append(out, Line("downloading", "", ""))
  /\ logs' = [ logs EXCEPT !["model-downloads.log"] = tee(@, << "downloading" >>) ]
  /\ selectedModels' = MODELS
  /\ idx' = 1
  /\ pc' = "loop"
  /\ UNCHANGED << chkVars, sysVars, runs, op, trace, exitCode, rejects, ret >>

\* echo "Pulling $model..." ; ollama pull "$model" 2>&1 | tee -a ...
ShDlPullSpawn ==
  /\ At("download_sh", "loop")
  /\ idx <= Len(selectedModels)
  /\ out' = Append(out, Line("pulling", selectedModels[idx], ""))
  /\ logs' = [ logs EXCEPT !["model-downloads.log"] = teeAppend(@, << "pulling" >>) ]
  /\ trace' = Append(trace, Spawn("pull", selectedModels[idx]))
  /\ pc' = "pulling"
  /\ UNCHANGED << chkVars, sysVars, runs, op, exitCode, selectedModels, idx, rejects, ret >>

\* the line the if on ${PIPESTATUS[0]} prints
shPullReport(model, res) ==
  IF res = "ok" THEN Line("pull_ok", model, "") ELSE Line("pull_fail", model, "")

\* the pull exits: its output went through tee, the if prints the result line
ShDlPullExit ==
  /\ At("download_sh", "pulling")
  /\ \E res \in { "ok" } \cup ErrorMessages :
       LET model == selectedModels[idx] IN
       /\ trace' = Append(trace, Exit("pull", model, res))
       /\ out' = out \o << Line("pull_output", model, res), shPullReport(model, res) >>
       /\ logs' = [ logs EXCEPT !["model-downloads.log"] =
                      teeAppend(@, << "pull_output", "pull_result" >>) ]
  /\ idx' = idx + 1
  /\ pc' = "loop"
  /\ UNCHANGED << chkVars, sysVars, runs, op, exitCode, selectedModels, rejects, ret >>

\* echo "Download complete..." ; ollama list | tee -a ...
ShDlListSpawn ==
  /\ At("download_sh", "loop")
  /\ idx > Len(selectedModels)
  /\ out' = Append(out, Line("download_complete", "", ""))
  /\ logs' = [ logs EXCEPT !["model-downloads.log"] = teeAppend(@, << "download_complete" >>) ]
  /\ trace' = Append(trace, Spawn("list", ""))
  /\ pc' = "listing"
  /\ UNCHANGED << chkVars, sysVars, runs, op, exitCode, selectedModels, idx, rejects, ret >>

\* the listing exits: its stdout goes through tee, its stderr to the terminal;
\* the script ends with the status of the last pipeline, which is tee's
ShDlListExit ==
  /\ At("download_sh", "listing")
  /\ \E res \in { "ok" } \cup ErrorMessages :
       /\ trace' = Append(trace, Exit("list", "", res))
       /\ out' = IF res = "ok" THEN Append(out, Line("list_output", "", ""))
                   ELSE Append(out, Line("list_stderr", "", res))
       /\ logs' = [ logs EXCEPT !["model-downloads.log"] =
                      IF res = "ok" THEN teeAppend(@, << "list_output" >>) ELSE @ ]
  /\ exitCode' = 0
  /\ pc' = "done"
  /\ UNCHANGED << chkVars, sysVars, runs, op, selectedModels, idx, rejects, ret >>

\* -------------------------------------------------- scripts/install-ollama.js
InstBegin == Begin("install", "check")

\* main without the return after the version check
mainAlreadyInstalled_noReturn(versionOk) == FALSE

\* main: what the first `ollama --version` decides: TRUE when main returns
mainAlreadyInstalled(versionOk) == versionOk

\* main: the check whether Ollama is already installed
InstCheck ==
  /\ At("install", "check")
  /\ trace' = trace \o Run("version", "", IF installed THEN "ok" ELSE "ENOENT")
  /\ IF mainAlreadyInstalled(installed)
       THEN /\ out' = Append(out, Line("already_installed", "", ""))
            /\ pc' = "done"
            /\ exitCode' = 0
       ELSE /\ pc' = "install"
            /\ UNCHANGED << out, exitCode >>
  /\ UNCHANGED << chkVars, envVars, runs, op, selectedModels, idx, rejects, ret >>

\* the platform branch with the official script as the fallback of every
\* platform but darwin
installCommand_elseLinux(currentPlatform) ==
  IF currentPlatform = "darwin" THEN "brew install ollama"
  ELSE "curl -fsSL https://ollama.ai/install.sh | sh"
\* installOllama: the install command of a platform, "" when unsupported
installCommand(currentPlatform) ==
  IF currentPlatform = "darwin" THEN "brew install ollama"
  ELSE IF currentPlatform = "linux" THEN "curl -fsSL https://ollama.ai/install.sh | sh"
  ELSE ""

\* the catch block reporting the failure without error.message
InstFail_noDetail(msg) ==
  /\ out' = out \o << Line("install_failed", "", ""), Line("manual_guidance", "", "") >>
  /\ pc' = "done"
  /\ exitCode' = 1

\* the catch block going back to the install step instead of exiting
InstFail_retry(msg) ==
  /\ out' = out \o << Line("install_failed", "", msg), Line("manual_guidance", "", "") >>
  /\ pc' = "install"
  /\ exitCode' = exitCode

\* installOllama: the catch block
InstFail(msg) ==
  /\ out' = out \o << Line("install_failed", "", msg), Line("manual_guidance", "", "") >>
  /\ pc' = "done"
  /\ exitCode' = 1

\* installOllama up to the verification: platform branch and install command
InstInstall ==
  /\ At("install", "install")
  /\ IF installCommand(platform) = ""
       THEN /\ InstFail("unsupported platform")
            /\ UNCHANGED << trace, installed >>
       ELSE \E res \in { "ok", "exit 1" } :
              /\ trace' = trace \o Run("install", installCommand(platform), res)
              /\ IF res = "ok"
                   THEN /\ installed' \in BOOLEAN
                        /\ out' = Append(out, Line("installed_successfully", "", ""))
                        /\ pc' = "verify"
                        /\ UNCHANGED exitCode
                   ELSE /\ InstFail(res)
                        /\ UNCHANGED installed
  /\ UNCHANGED << chkVars, logs, platform, procs, listener, pidFile, nextPid,
                  runs, op, selectedModels, idx, rejects, ret >>

\* the verification result ignored: the run counts as verified
installVerified_assumed(versionOk) == TRUE

\* installOllama: whether the second `ollama --version` resolved
installVerified(versionOk) == versionOk

\* installOllama: the verification with `ollama --version`
InstVerify ==
  /\ At("install", "verify")
  /\ trace' = trace \o Run("version", "", IF installed THEN "ok" ELSE "ENOENT")
  /\ IF installVerified(installed)
       THEN /\ out' = Append(out, Line("version_ready", "", ""))
            /\ pc' = "done"
            /\ exitCode' = 0
       ELSE InstFail("ENOENT")
  /\ UNCHANGED << chkVars, envVars, runs, op, selectedModels, idx, rejects, ret >>

\* --------------------------------------------- check-models.js (model check)
\* characters of a listing: "x" stands for any non-blank character
Chars == { "x", " ", "\n" }
MaxStdout == 5      \* length of the listing outputs tried
Listings == UNION { [ 1..n -> Chars ] : n \in 0..MaxStdout }
\* the listing outputs tried together with the other scripts
ListingSamples ==
  { << >>, << " " >>, << "x" >>, << "x", "\n", "x" >>, << "x", " ", "x", "\n", "x" >> }

IsWhitespace(c) == c \in { " ", "\n" }

RECURSIVE trimStart(_)
trimStart(s) ==
  IF s = << >> THEN s
  ELSE IF IsWhitespace(Head(s)) THEN trimStart(Tail(s)) ELSE s

RECURSIVE trimEnd(_)
trimEnd(s) ==
  IF s = << >> THEN s
  ELSE IF IsWhitespace(s[Len(s)]) THEN trimEnd(SubSeq(s, 1, Len(s) - 1)) ELSE s

\* String.prototype.trim
trim(s) == trimEnd(trimStart(s))

\* String.prototype.split('\n'): the pieces between the newlines
RECURSIVE split(_)
split(s) ==
  IF \A i \in 1..Len(s) : s[i] # "\n" THEN << s >>
  ELSE LET k == CHOOSE i \in 1..Len(s) :
                  s[i] = "\n" /\ \A j \in 1..(i - 1) : s[j] # "\n"
       IN << SubSeq(s, 1, k - 1) >> \o split(SubSeq(s, k + 1, Len(s)))

\* checkInstalledModels: the test for an empty listing
noModelsInstalled(o) == trim(o) = << >>

\* the count without the header subtracted
countModels_withHeader(o) == Len(split(trim(o)))

\* checkInstalledModels: lines.length - 1
countModels(o) == Len(split(trim(o))) - 1

\* the catch block ending the run as a success
checkCatch_exitZero(res) ==
  [ lines |-> << Line("check_failed", "", res), Line("make_sure_installed", "", "") >>,
    code |-> 0 ]

\* checkInstalledModels: the catch block: reports and exit code
checkCatch(res) ==
  [ lines |-> << Line("check_failed", "", res), Line("make_sure_installed", "", "") >>,
    code |-> 1 ]

CheckBegin == Begin("check", "list")

\* checkInstalledModels with the listing output drawn from outputs
CheckList(outputs) ==
  /\ At("check", "list")
  /\ \E res \in { "ok" } \cup ErrorMessages :
       /\ trace' = trace \o Run("list", "", res)
       /\ IF res = "ok"
            THEN \E o \in outputs :
                   /\ stdout' = o
                   /\ exitCode' = 0
                   /\ IF noModelsInstalled(o)
                        THEN /\ out' = << Line("checking", "", ""),
                                          Line("no_models_installed", "", ""),
                                          Line("run_download_models", "", "") >>
                             /\ modelCount' = -1
                        ELSE /\ out' = << Line("checking", "", ""),
                                          Line("installed_models", "", ""),
                                          Line("list_output", "", ""),
                                          Line("total", "", "") >>
                             /\ modelCount' = countModels(o)
            ELSE /\ out' = << Line("checking", "", "") >> \o checkCatch(res).lines
                 /\ exitCode' = checkCatch(res).code
                 /\ UNCHANGED << stdout, modelCount >>
  /\ pc' = "done"
  /\ UNCHANGED << envVars, runs, op, selectedModels, idx, rejects, ret >>

CheckListSample == CheckList(ListingSamples)
CheckListAny == CheckList(Listings)

\* ------------------------------------------------------ test-model-basic.sh
TEST_MODELS == << "qwen2.5-coder:7b", "deepseek-coder-v2:16b" >>
\* what the response of `ollama run` holds: a word the tests look for, or
\* the error text of a failed run
TestResponses == { "def", "print", "function" } \cup ErrorMessages

\* the [[ $response == *...* ]] tests of the two models
isWorking(i, response) ==
  IF i = 1 THEN response \in { "def", "print" } ELSE response \in { "def", "function" }

TestBegin == Begin("test_models", "header")

\* echo "Testing models..." | tee logs/model-tests.log
TestHeader ==
  /\ At("test_models", "header")
  /\ out' = Append(out, Line("testing", "", ""))
  /\ logs' = [ logs EXCEPT !["model-tests.log"] = tee(@, << "testing" >>) ]
  /\ idx' = 1
  /\ pc' = "tests"
  /\ UNCHANGED << chkVars, sysVars, runs, op, trace, exitCode, selectedModels, rejects, ret >>

\* one test: the title, response=$(ollama run ... 2>&1), its echo, the verdict
TestRun ==
  /\ At("test_models", "tests")
  /\ idx <= Len(TEST_MODELS)
  /\ \E response \in TestResponses :
       LET model == TEST_MODELS[idx]
           res == IF response \in ErrorMessages THEN response ELSE "ok"
       IN
       /\ trace' = trace \o Run("run", model, res)
       /\ out' = out \o << Line("test_title", model, ""),
                           Line("response", model, response),
                           Line(IF isWorking(idx, response) THEN "working" ELSE "test_failed",
                                model, "") >>
       /\ logs' = [ logs EXCEPT !["model-tests.log"] =
                      teeAppend(@, << "test_title", "response", "verdict" >>) ]
  /\ idx' = idx + 1
  /\ UNCHANGED << chkVars, sysVars, runs, op, pc, exitCode, selectedModels, rejects, ret >>

\* echo "=== Model Tests Complete ===" | tee -a logs/model-tests.log
TestFooter ==
  /\ At("test_models", "tests")
  /\ idx > Len(TEST_MODELS)
  /\ out' = Append(out, Line("tests_complete", "", ""))
  /\ logs' = [ logs EXCEPT !["model-tests.log"] = teeAppend(@, << "tests_complete" >>) ]
  /\ exitCode' = 0
  /\ pc' = "done"
  /\ UNCHANGED << chkVars, sysVars, runs, op, trace, selectedModels, idx, rejects, ret >>

\* ------------------------------------------------------------- health check
\* what a GET of http://localhost:11434/api/tags meets
Responses == IF listener = NoPid THEN { "refused" } ELSE { "2xx", "non2xx" }

\* a detached `ollama serve` gets the next PID; it lives if the binary exists
SpawnServe ==
  /\ procs' = IF installed THEN procs \cup { nextPid } ELSE procs
  /\ nextPid' = nextPid + 1

\* ---------------------------------------------------- scripts/start-ollama.js
StartJsBegin == Begin("start_js", "spawn")

\* execa('ollama', ['serve'], { detached: true, stdio: 'ignore' })
StartJsSpawn ==
  /\ At("start_js", "spawn")
  /\ trace' = Append(trace, Spawn("serve", ""))
  /\ SpawnServe
  /\ pc' = "settle"
  /\ UNCHANGED << chkVars, logs, installed, platform, listener, pidFile,
                  runs, op, out, exitCode, selectedModels, idx, rejects, ret >>

\* the readiness check: report and exit code for what fetch met
startJsCheck(resp) ==
  IF resp = "2xx" THEN [ line |-> Line("service_ready", "", ""), code |-> 0 ]
  ELSE IF resp = "non2xx" THEN [ line |-> Line("failed_to_respond", "", ""), code |-> 1 ]
  ELSE [ line |-> Line("failed_to_connect", "", ""), code |-> 1 ]

\* the readiness check killing the spawned process when it reports failure
StartJsProbe_killOnFailure ==
  /\ At("start_js", "settle")
  /\ \E resp \in Responses :
       /\ trace' = trace \o Run("fetch", "", resp)
       /\ out' = Append(out, startJsCheck(resp).line)
       /\ exitCode' = startJsCheck(resp).code
       /\ procs' = IF startJsCheck(resp).code = 0 THEN procs ELSE procs \ { nextPid - 1 }
       /\ listener' = IF startJsCheck(resp).code # 0 /\ listener = nextPid - 1
                        THEN NoPid ELSE listener
  /\ pc' = "done"
  /\ UNCHANGED << chkVars, logs, installed, platform, pidFile, nextPid,
                  runs, op, selectedModels, idx, rejects, ret >>

\* after the 3 s timer: fetch and report
StartJsProbe ==
  /\ At("start_js", "settle")
  /\ \E resp \in Responses :
       /\ trace' = trace \o Run("fetch", "", resp)
       /\ out' = Append(out, startJsCheck(resp).line)
       /\ exitCode' = startJsCheck(resp).code
  /\ pc' = "done"
  /\ UNCHANGED << chkVars, envVars, runs, op, selectedModels, idx, rejects, ret >>

\* ---------------------------------------------------- scripts/start-ollama.sh
StartShBegin == Begin("start_sh", "spawn")

\* ollama serve > logs/ollama-service.log 2>&1 & ; echo $! > logs/ollama.pid
StartShSpawn ==
  /\ At("start_sh", "spawn")
  /\ trace' = Append(trace, Spawn("serve", ""))
  /\ SpawnServe
  /\ pidFile' = nextPid
  /\ logs' = [ logs EXCEPT !["ollama-service.log"] = tee(@, << "service_output" >>) ]
  /\ out' = out \o << Line("starting", "", ""), Line("started_with_pid", "", "") >>
  /\ pc' = "settle"
  /\ UNCHANGED << chkVars, installed, platform, listener,
                  runs, op, exitCode, selectedModels, idx, rejects, ret >>

\* curl -s ... > /dev/null && echo ready || echo failed: curl -s succeeds on
\* any HTTP response; the script ends with the status of the echo that ran
startShCheck(resp) ==
  IF resp = "refused" THEN [ line |-> Line("failed_to_connect", "", ""), code |-> 0 ]
  ELSE [ line |-> Line("service_ready", "", ""), code |-> 0 ]

\* after sleep 3: curl and report
StartShProbe ==
  /\ At("start_sh", "settle")
  /\ \E resp \in Responses :
       /\ trace' = trace \o Run("curl", "", resp)
       /\ out' = Append(out, startShCheck(resp).line)
       /\ exitCode' = startShCheck(resp).code
  /\ pc' = "done"
  /\ UNCHANGED << chkVars, envVars, runs, op, selectedModels, idx, rejects, ret >>

\* ----------------------------------------------------- scripts/stop-ollama.js
StopBegin == Begin("stop", "scan")

\* the lines of the `ps aux` output that hold 'ollama serve'
psOutput == procs

\* psOutput.includes('ollama serve')
isRunning(ps) == ps # {}

\* the not-running branch without process.exit: the script goes on to pkill
stopNotRunning_fallThrough == [ line |-> Line("not_running", "", ""), code |-> 0, pc |-> "kill" ]

\* what the script does when the scan found no service: report, exit code
\* and the position it goes on from
stopNotRunning == [ line |-> Line("not_running", "", ""), code |-> 0, pc |-> "done" ]

\* execa('ps', ['aux']) and the isRunning branch
StopScan ==
  /\ At("stop", "scan")
  /\ trace' = trace \o Run("ps", "aux", IF procs = {} THEN "none" ELSE "found")
  /\ IF ~isRunning(psOutput)
       THEN /\ out' = Append(out, stopNotRunning.line)
            /\ exitCode' = IF stopNotRunning.pc = "done" THEN stopNotRunning.code ELSE exitCode
            /\ pc' = stopNotRunning.pc
       ELSE /\ pc' = "kill"
            /\ UNCHANGED << out, exitCode >>
  /\ UNCHANGED << chkVars, envVars, runs, op, selectedModels, idx, rejects, ret >>

\* execa('pkill', ['-f', 'ollama serve']): pkill exits 1 when nothing matched,
\* execa throws and the outer catch reports
StopKill ==
  /\ At("stop", "kill")
  /\ IF procs = {}
       THEN /\ trace' = trace \o Run("pkill", "ollama serve", "exit 1")
            /\ out' = Append(out, Line("failed_to_stop", "", "exit 1"))
            /\ exitCode' = 1
            /\ pc' = "done"
       ELSE /\ trace' = trace \o Run("pkill", "ollama serve", "ok")
            /\ pc' = "wait"
            /\ UNCHANGED << out, exitCode >>
  /\ UNCHANGED << chkVars, envVars, runs, op, selectedModels, idx, rejects, ret >>

\* the verification with the refused connection left unhandled: it reaches
\* the outer catch
stopCheck_outerCatch(resp) ==
  IF resp = "refused" THEN [ line |-> Line("failed_to_stop", "", ""), code |-> 1 ]
  ELSE [ line |-> Line("still_running", "", ""), code |-> 1 ]

\* the verification looking at response.ok as the readiness check of start does
stopCheck_okOnly(resp) ==
  IF resp = "2xx" THEN [ line |-> Line("still_running", "", ""), code |-> 1 ]
  ELSE [ line |-> Line("stopped", "", ""), code |-> 0 ]

\* the verification: any response means still running, a throw means stopped
stopCheck(resp) ==
  IF resp = "refused" THEN [ line |-> Line("stopped", "", ""), code |-> 0 ]
  ELSE [ line |-> Line("still_running", "", ""), code |-> 1 ]

\* the verification sending the signal again while the service answers
StopProbe_retry ==
  /\ At("stop", "wait")
  /\ \E resp \in Responses :
       /\ trace' = trace \o Run("fetch", "", resp)
       /\ out' = Append(out, stopCheck(resp).line)
       /\ IF stopCheck(resp).code = 0
            THEN exitCode' = 0 /\ pc' = "done"
            ELSE exitCode' = exitCode /\ pc' = "kill"
  /\ UNCHANGED << chkVars, envVars, runs, op, selectedModels, idx, rejects, ret >>
\* after the 1 s timer: fetch and report
StopProbe ==
  /\ At("stop", "wait")
  /\ \E resp \in Responses :
       /\ trace' = trace \o Run("fetch", "", resp)
       /\ out' = Append(out, stopCheck(resp).line)
       /\ exitCode' = stopCheck(resp).code
  /\ pc' = "done"
  /\ UNCHANGED << chkVars, envVars, runs, op, selectedModels, idx, rejects, ret >>

\* -------------------------------------------------------------- environment
\* a service process exits (terminated, crashed, or failed to bind the port)
ProcExit ==
  /\ \E p \in procs :
       /\ procs' = procs \ { p }
       /\ listener' = IF listener = p THEN NoPid ELSE listener
  /\ UNCHANGED << installed, platform, pidFile, nextPid, logs, runVars >>

\* a service process binds port 11434 and starts answering
ServeBind ==
  /\ listener = NoPid
  /\ \E p \in procs : listener' = p
  /\ UNCHANGED << installed, platform, procs, pidFile, nextPid, logs, runVars >>

Next ==
  \/ CheckBegin
  \/ CheckListSample
  \/ TestBegin
  \/ TestHeader
  \/ TestRun
  \/ TestFooter
  \/ ShDlBegin
  \/ ShDlHeader
  \/ ShDlPullSpawn
  \/ ShDlPullExit
  \/ ShDlListSpawn
  \/ ShDlListExit
  \/ InstBegin
  \/ InstCheck
  \/ InstInstall
  \/ InstVerify
  \/ StartJsBegin
  \/ StartJsSpawn
  \/ StartJsProbe
  \/ StartShBegin
  \/ StartShSpawn
  \/ StartShProbe
  \/ StopBegin
  \/ StopScan
  \/ StopKill
  \/ StopProbe
  \/ ProcExit
  \/ ServeBind
  \/ DlBegin
  \/ DlPromptReject
  \/ DlPromptReturn
  \/ DlPullSpawn
  \/ DlPullExit
  \/ DlListSpawn
  \/ DlListExit

Spec == Init /\ [][Next]_vars

\* the model check alone, over every listing output up to MaxStdout
NextCheck ==
  \/ CheckBegin
  \/ CheckListAny

SpecCheck == Init /\ [][NextCheck]_vars

\* ================================================================== claims
Downloaders == { "download", "download_sh" }
PullArgs(t) == [ i \in 1..Len(PullCalls(t)) |-> PullCalls(t)[i].arg ]
IsPrefix(a, b) == Len(a) <= Len(b) /\ \A i \in 1..Len(a) : a[i] = b[i]
FailedPulls(t) == { i \in 1..Len(PullExits(t)) : PullExits(t)[i].res # "ok" }
Finished(script) == op = script /\ pc = "done"
\* position of the first event of command cmd in the trace, 0 when there is none
FirstOf(t, cmd) ==
  IF cmd \in Cmds(t) THEN CHOOSE k \in 1..Len(t) :
                            t[k].cmd = cmd /\ \A j \in 1..(k - 1) : t[j].cmd # cmd
  ELSE 0
ExitRes(t, cmd) == { t[i].res : i \in { j \in 1..Len(t) : IsExit(t[j]) /\ t[j].cmd = cmd } }

\* C1: in a downloader run the pulls issued so far are the first items of
\* the selection, one pull per item and in selection order, and a finished
\* run with a non-empty selection has pulled exactly the selection, whatever
\* the pulls returned.
C1_PullOncePerItemInOrder ==
  op \in Downloaders =>
    /\ IsPrefix(PullArgs(trace), selectedModels)
    /\ (pc = "done" /\ selectedModels # << >>) => PullArgs(trace) = selectedModels

C1_Witness ==
  /\ Finished("download")
  /\ Len(selectedModels) = 3
  /\ FailedPulls(trace) = { 2 }
  /\ PullArgs(trace) = selectedModels

\* C2: in a finished downloader run where the pull of item i failed and no
\* other pull failed, every item of the selection was pulled, there is one
\* outcome report per item, the report of item i and no other is a failure,
\* and (Node downloader) it carries the error message of the pull.
C2_FailureDoesNotAbortBatch ==
  (op \in Downloaders /\ pc = "done") =>
    \A i \in 1..Len(selectedModels) :
      FailedPulls(trace) = { i } =>
        /\ PullArgs(trace) = selectedModels
        /\ Len(PullExits(trace)) = Len(selectedModels)
        /\ Len(PullReports(out)) = Len(selectedModels)
        /\ \A j \in 1..Len(selectedModels) :
             /\ PullReports(out)[j].model = selectedModels[j]
             /\ (PullReports(out)[j].kind = "pull_fail") <=> (j = i)
        /\ op = "download" => PullReports(out)[i].msg = PullExits(trace)[i].res
        /\ op = "download_sh" =>
             \E k \in 1..Len(out) :
               out[k] = Line("pull_output", selectedModels[i], PullExits(trace)[i].res)

C2_Witness ==
  /\ Finished("download")
  /\ Len(selectedModels) = 3
  /\ FailedPulls(trace) = { 1 }
  /\ PullReports(out)[1] = Line("pull_fail", selectedModels[1], "network error")
  /\ PullReports(out)[3].kind = "pull_ok"

\* C3: in a run of the Node downloader every empty answer to the selection
\* prompt is answered by the validation error, and as long as no non-empty
\* selection was given no external process is spawned (no pull, no list).
IsValidationError(l) == l.kind = "validation_error"
EmptySubmissions ==
  rejects + (IF pc # "prompt" /\ selectedModels = << >> THEN 1 ELSE 0)
C3_EmptySelectionSpawnsNothing ==
  op = "download" =>
    /\ selectedModels = << >> => trace = << >>
    /\ Len(SelectSeq(out, IsValidationError)) = EmptySubmissions

C3_Witness ==
  /\ At("download", "prompt")
  /\ rejects = 1
  /\ out = << Line("validation_error", "", "You must choose at least one model.") >>
  /\ trace = << >>

\* C4: a downloader run invokes `ollama list` at most once, only when every
\* item of the selection has been pulled and its pull has exited, no pull
\* follows it, and a finished run with a non-empty selection invoked it
\* exactly once.
C4_ListOnceAfterLastPull ==
  op \in Downloaders =>
    /\ Len(ListCalls(trace)) <= 1
    /\ "list" \in Cmds(trace) =>
         LET k == FirstOf(trace, "list") IN
         /\ Len(PullCalls(SubSeq(trace, 1, k - 1))) = Len(selectedModels)
         /\ Len(PullExits(SubSeq(trace, 1, k - 1))) = Len(selectedModels)
         /\ \A j \in k..Len(trace) : trace[j].cmd = "list"
    /\ (pc = "done" /\ selectedModels # << >>) => Len(ListCalls(trace)) = 1

C4_Witness ==
  /\ Finished("download")
  /\ Len(selectedModels) = 2
  /\ FailedPulls(trace) = { 1, 2 }
  /\ Len(ListCalls(trace)) = 1
  /\ trace[Len(trace)].cmd = "list"

\* C5: when the Node downloader has finished a non-empty selection, the
\* value main resolved to is the list of per-item results, one per selected
\* model in selection order.
DownloadResult(e) ==
  [ model |-> e.arg,
    outcome |-> IF e.res = "ok" THEN "Success" ELSE "Failure",
    errorDetail |-> IF e.res = "ok" THEN "" ELSE e.res ]
DownloadResults(t) == [ i \in 1..Len(PullExits(t)) |-> DownloadResult(PullExits(t)[i]) ]
C5_ReturnsResultList ==
  (Finished("download") /\ selectedModels # << >>) =>
    /\ ret.tag = "list"
    /\ ret.list = DownloadResults(trace)

\* C6: when the process scan of stop finds no service process, the run is
\* over at once with the not-running report and exit code 0, and neither
\* pkill nor the health check was invoked.
C6_StopWhenNotRunning ==
  (op = "stop" /\ "none" \in ExitRes(trace, "ps")) =>
    /\ pc = "done"
    /\ exitCode = 0
    /\ out = << Line("not_running", "", "") >>
    /\ Cmds(trace) = { "ps" }

C6_Witness ==
  /\ Finished("stop")
  /\ procs = {}
  /\ ExitRes(trace, "ps") = { "none" }
  /\ exitCode = 0

\* C7: in an installer run whose first `ollama --version` succeeded, no
\* install command is invoked and the run has ended with exit code 0; this
\* holds in every run, however many installer runs came before.
C7_InstalledMeansNoInstall ==
  (op = "install" /\ Len(trace) >= 2 /\ trace[2] = Exit("version", "", "ok")) =>
    /\ pc = "done"
    /\ exitCode = 0
    /\ Cmds(trace) = { "version" }
    /\ Kinds(out) = { "already_installed" }

C7_Witness ==
  /\ Finished("install")
  /\ runs = MaxRuns
  /\ installed
  /\ trace = Run("version", "", "ok")
  /\ exitCode = 0

\* C8: a health check that meets no listener is always turned into the
\* caller's handled result: start reports the connection failure (exit code
\* 1 in start-ollama.js), stop reports that the service stopped (exit code
\* 0); the run ends with that report and nothing else.
C8_RefusedProbeIsHandled ==
  /\ (op = "start_js" /\ "refused" \in ExitRes(trace, "fetch")) =>
       pc = "done" /\ exitCode = 1 /\ out = << Line("failed_to_connect", "", "") >>
  /\ (op = "start_sh" /\ "refused" \in ExitRes(trace, "curl")) =>
       pc = "done" /\ out[Len(out)] = Line("failed_to_connect", "", "")
  /\ (op = "stop" /\ "refused" \in ExitRes(trace, "fetch")) =>
       pc = "done" /\ exitCode = 0 /\ out = << Line("stopped", "", "") >>

C8_Witness ==
  /\ Finished("stop")
  /\ listener = NoPid
  /\ ExitRes(trace, "fetch") = { "refused" }
  /\ out = << Line("stopped", "", "") >>

\* C9: every finished run of install, start (either variant) or stop has
\* exit code 1 if it reported a failure and exit code 0 otherwise.
FailureKinds ==
  { "install_failed", "failed_to_connect", "failed_to_respond",
    "failed_to_stop", "still_running" }
ReportedFailure == Kinds(out) \cap FailureKinds # {}
C9_ExitCodeMatchesReport ==
  (pc = "done" /\ op \in { "install", "start_js", "start_sh", "stop" }) =>
    exitCode = (IF ReportedFailure THEN 1 ELSE 0)

\* C10: a finished Node downloader run has exit code 0 and resolved main
\* normally whether the closing listing succeeded or failed; a failed listing
\* shows as the could-not-list warning only.
C10_ListFailureIsWarning ==
  (Finished("download") /\ selectedModels # << >>) =>
    /\ exitCode = 0
    /\ ret = Undefined
    /\ "script_failed" \notin Kinds(out)
    /\ ExitRes(trace, "list") # { "ok" } => out[Len(out)] = Line("could_not_list", "", "")

C10_Witness ==
  /\ Finished("download")
  /\ ExitRes(trace, "list") = { "network error" }
  /\ FailedPulls(trace) = {}
  /\ exitCode = 0
  /\ out[Len(out)].kind = "could_not_list"

\* C11: once a start script has spawned the service, logs/ollama.pid holds
\* the PID of the process it spawned.
Starts == { "start_js", "start_sh" }
SpawnedPid == nextPid - 1
C11_StartRecordsPid ==
  (op \in Starts /\ pc \in { "settle", "done" }) => pidFile = SpawnedPid

\* C12: after a stop run that reported the service stopped successfully,
\* logs/ollama.pid does not exist.
C12_PidFileGoneAfterStop ==
  (Finished("stop") /\ "stopped" \in Kinds(out)) => pidFile = NoPid

\* C13 (as stated): a finished start run whose health probe failed reported
\* the start failure, sent no termination signal, and the process it spawned
\* is running.
StartProbeFailed ==
  \/ op = "start_js" /\ ExitRes(trace, "fetch") \cap { "refused", "non2xx" } # {}
  \/ op = "start_sh" /\ "refused" \in ExitRes(trace, "curl")
StartFailureKinds == { "failed_to_connect", "failed_to_respond" }
C13_SpawnedStillRunning ==
  (op \in Starts /\ pc = "done" /\ StartProbeFailed) =>
    /\ Kinds(out) \cap StartFailureKinds # {}
    /\ "pkill" \notin Cmds(trace)
    /\ SpawnedPid \in procs

\* C13 (amended): a start run whose health probe failed reports the start
\* failure and invokes nothing but the spawn and the probe, and no step of
\* a start script ends a service process or takes the port from it: the
\* spawned process is running when start exits unless it exited on its own.
C13_ProbeFailedInv ==
  (op \in Starts /\ StartProbeFailed) =>
    /\ pc = "done"
    /\ Kinds(out) \cap StartFailureKinds # {}
    /\ Cmds(trace) \subseteq { "serve", "fetch", "curl" }
C13_StartStep ==
  (op' \in Starts /\ runVars' # runVars) => (procs \subseteq procs' /\ listener' = listener)
C13_StartLeavesProcess == []C13_ProbeFailedInv /\ [][C13_StartStep]_vars

C13_Witness ==
  /\ Finished("start_js")
  /\ out = << Line("failed_to_connect", "", "") >>
  /\ exitCode = 1
  /\ SpawnedPid \in procs

\* C14 (as stated): a stop run that reached the verification reports the
\* stop failure exactly when the probe got a 2xx response; a refused
\* connection or a non-2xx response makes it report the service stopped.
StopProbed == Finished("stop") /\ "fetch" \in Cmds(trace)
C14_StopFailedIffReady ==
  StopProbed =>
    /\ ("still_running" \in Kinds(out)) <=> (ExitRes(trace, "fetch") = { "2xx" })
    /\ ExitRes(trace, "fetch") \subseteq { "refused", "non2xx" } =>
         (out = << Line("stopped", "", "") >> /\ exitCode = 0)

\* C14 (amended): a stop run that reached the verification reports the stop
\* failure (exit code 1) exactly when the probe got an HTTP response, 2xx
\* or not; it reports the service stopped (exit code 0) exactly when the
\* fetch threw.
C14_StopFailedIffAnyResponse ==
  StopProbed =>
    /\ (out = << Line("still_running", "", "") >> /\ exitCode = 1)
         <=> (ExitRes(trace, "fetch") \subseteq { "2xx", "non2xx" })
    /\ (out = << Line("stopped", "", "") >> /\ exitCode = 0)
         <=> (ExitRes(trace, "fetch") = { "refused" })

C14_Witness ==
  /\ StopProbed
  /\ ExitRes(trace, "fetch") = { "non2xx" }
  /\ out = << Line("still_running", "", "") >>
  /\ exitCode = 1

\* C15: an installer run invokes at most one install command; when that
\* command exits non-zero the run is over with the failure report, the
\* manual-install guidance and exit code 1, and nothing is invoked after it.
IsInstall(e) == e.cmd = "install"
InstallCalls(t) == SelectSeq(Calls(t), IsInstall)
C15_InstallFailureIsTerminal ==
  op = "install" =>
    /\ Len(InstallCalls(trace)) <= 1
    /\ "exit 1" \in ExitRes(trace, "install") =>
         /\ pc = "done"
         /\ exitCode = 1
         /\ out = << Line("install_failed", "", "exit 1"), Line("manual_guidance", "", "") >>
         /\ trace[Len(trace)] = Exit("install", installCommand(platform), "exit 1")

C15_Witness ==
  /\ Finished("install")
  /\ platform = "linux"
  /\ ExitRes(trace, "install") = { "exit 1" }
  /\ exitCode = 1

\* C16: an installer run that invoked a successful install command ends
\* with exit code 0 only if the `ollama --version` run after it succeeded;
\* when that verification fails the run ends with the failure report and
\* exit code 1.
C16_ExitZeroOnlyIfVerified ==
  (Finished("install") /\ "ok" \in ExitRes(trace, "install")) =>
    /\ trace[Len(trace)].cmd = "version"
    /\ exitCode = (IF trace[Len(trace)].res = "ok" THEN 0 ELSE 1)
    /\ exitCode = 0 => installed
    /\ exitCode = 1 => { "install_failed", "manual_guidance" } \subseteq Kinds(out)

C16_Witness ==
  /\ Finished("install")
  /\ ExitRes(trace, "install") = { "ok" }
  /\ trace[Len(trace)] = Exit("version", "", "ENOENT")
  /\ exitCode = 1
  /\ ~installed

\* C17 (as stated): the model check never fails the run: when the listing
\* call fails, the failure shows as a report entry and the run still ends
\* with exit code 0.
ListFailed == ExitRes(trace, "list") \cap ErrorMessages # {}
C17_CheckNeverFailsRun ==
  Finished("check") =>
    /\ exitCode = 0
    /\ "script_failed" \notin Kinds(out)
    /\ ListFailed => "check_failed" \in Kinds(out)

\* C17 (amended): the model check never lets the failure of the listing
\* call escape as an exception: it is caught and reported with its error
\* message, and the run then ends with exit code 1; a run whose listing
\* succeeded ends with exit code 0.
C17_CheckFailureReportedExitOne ==
  Finished("check") =>
    /\ "script_failed" \notin Kinds(out)
    /\ ListFailed =>
         /\ \E res \in ExitRes(trace, "list") : out[2] = Line("check_failed", "", res)
         /\ exitCode = 1
    /\ ~ListFailed => exitCode = 0

C17_Witness ==
  /\ Finished("check")
  /\ trace = Run("list", "", "network error")
  /\ out[2] = Line("check_failed", "", "network error")
  /\ exitCode = 1

\* C18: non-zero exits of awaited external commands and where they show
FailureResults == ErrorMessages \cup { "ENOENT", "exit 1", "refused" }
IsCommandFailure(e) == IsExit(e) /\ e.cmd # "fetch" /\ e.res \in FailureResults
SurfacedIn(o, e) == \E k \in 1..Len(o) : o[k].msg = e.res
\* the two advisory paths the claim names
ListAfterDownload(e) == op = "download" /\ e.cmd = "list"
VersionInStatus(e) == op = "check" /\ e.cmd = "version"
\* the other paths where the code drops the error detail
InstallerPreCheck(i) == op = "install" /\ i = 2 /\ trace[i].cmd = "version"
ShellStartProbe(e) == op = "start_sh" /\ e.cmd = "curl"

\* C18 (as stated): every non-zero exit of an external command shows in the
\* console output with its error detail, except the listing after the Node
\* download and a version check of the status report.
C18_OnlyTwoAdvisoryPaths ==
  \A i \in 1..Len(trace) :
    (IsCommandFailure(trace[i]) /\ ~ListAfterDownload(trace[i]) /\ ~VersionInStatus(trace[i]))
      => SurfacedIn(out, trace[i])

\* C18 (amended): every non-zero exit of an awaited external command shows
\* in the console output with its error detail, except in three paths: the
\* listing after the Node download (warning only), the installer's first
\* `ollama --version` (nothing is printed, the install goes on) and the
\* health probe of start-ollama.sh (failure line without detail).
C18_SurfacedExceptThreePaths ==
  /\ \A i \in 1..Len(trace) :
       (IsCommandFailure(trace[i]) /\ ~ListAfterDownload(trace[i])
          /\ ~InstallerPreCheck(i) /\ ~ShellStartProbe(trace[i]))
         => SurfacedIn(out, trace[i])
  /\ (Finished("download") /\ ListFailed) => out[Len(out)] = Line("could_not_list", "", "")
  /\ At("install", "install") => (out = << >> /\ trace = Run("version", "", "ENOENT"))
  /\ (op = "start_sh" /\ "refused" \in ExitRes(trace, "curl")) =>
       out[Len(out)] = Line("failed_to_connect", "", "")

C18_Witness ==
  /\ Finished("install")
  /\ platform = "darwin"
  /\ trace = Run("version", "", "ENOENT") \o Run("install", "brew install ollama", "exit 1")
  /\ out[1] = Line("install_failed", "", "exit 1")

\* C19 (as stated): no step removes or overwrites what the log file of the
\* model download or of the model test holds: the old content of the file
\* is a prefix of its new content.
ScriptLogs == { "model-downloads.log", "model-tests.log" }
C19_LogStepAppends == \A f \in ScriptLogs : IsPrefix(logs[f], logs'[f])
C19_OneRunPerLog ==
  \A f \in LogFiles : \A i \in 1..Len(logs[f]) : logs[f][i].run = logs[f][1].run
C19_LogStep ==
  \A f \in LogFiles :
    \/ IsPrefix(logs[f], logs'[f])
    \/ /\ pc \in { "header", "spawn" }
       /\ Len(logs'[f]) = 1
       /\ logs'[f][1].run = runs
Newlines(s) == { i \in 1..Len(s) : s[i] = "\n" }
LineBounds(s) == Newlines(s) \cup { 0, Len(s) + 1 }
\* every line of s holds text: between two neighbouring line bounds there is
\* a non-blank character
EveryLineHasText(s) ==
  \A a, b \in LineBounds(s) :
    (a < b /\ \A c \in LineBounds(s) : ~(a < c /\ c < b)) =>
      \E k \in (a + 1)..(b - 1) : s[k] = "x"
HeaderAndModels(s, n) == EveryLineHasText(s) /\ Cardinality(Newlines(s)) = n
WhitespaceOnly(s) == \A i \in 1..Len(s) : s[i] \in { " ", "\n" }
C20_TotalIsModelLines ==
  (Finished("check") /\ ExitRes(trace, "list") = { "ok" }) =>
    /\ \A n \in 1..Len(stdout) :
         HeaderAndModels(stdout, n) => (modelCount = n /\ "total" \in Kinds(out))
    /\ WhitespaceOnly(stdout) =>
         /\ "no_models_installed" \in Kinds(out)
         /\ "total" \notin Kinds(out)
         /\ modelCount = -1
         /\ exitCode = 0

C20_Witness ==
  /\ Finished("check")
  /\ stdout = << "x", "\n", "x", "\n", "x" >>
  /\ modelCount = 2
  /\ "total" \in Kinds(out)


\* C21: downloads are strictly sequential: at every moment of a downloader
\* run at most one pull is in flight, and the pull events of the run
\* alternate spawn, exit, spawn, exit: the pull of item k+1 is spawned only
\* after the pull of item k has exited, whatever its result.
PullEvents(t) == SelectSeq(t, IsPull)
InFlight(t) == Len(PullCalls(t)) - Len(PullExits(t))
C21_PullsStrictlySequential ==
  op \in Downloaders =>
    /\ InFlight(trace) \in { 0, 1 }
    /\ \A k \in 1..Len(PullEvents(trace)) :
         LET e == PullEvents(trace)[k] IN
         IF k % 2 = 1
           THEN /\ IsSpawn(e)
                /\ (k + 1) \div 2 <= Len(selectedModels)
                /\ e.arg = selectedModels[(k + 1) \div 2]
           ELSE /\ IsExit(e)
                /\ e.arg = PullEvents(trace)[k - 1].arg

C21_Witness ==
  /\ At("download", "pulling")
  /\ idx = 2
  /\ FailedPulls(trace) = { 1 }
  /\ InFlight(trace) = 1

\* C22: in both start variants the ready message is printed only when the
\* one health probe made after the settle interval got a 2xx response; a
\* non-2xx response, like a refused connection, gives the failure report.
IsProbe(e) == e.cmd \in { "fetch", "curl" }
StartProbeResults == ExitRes(trace, "fetch") \cup ExitRes(trace, "curl")
C22_ReadyOnlyOn2xx ==
  (op \in Starts /\ pc = "done") =>
    /\ Len(SelectSeq(Calls(trace), IsProbe)) = 1
    /\ ("service_ready" \in Kinds(out)) <=> (StartProbeResults = { "2xx" })
    /\ StartProbeResults \subseteq { "non2xx", "refused" } =>
         Kinds(out) \cap StartFailureKinds # {}

\* C23: a stop run sends at most one termination command, a plain pkill,
\* and only right after the process scan found the service; when the
\* service still answers after the wait the run is over with the stop
\* failure and exit code 1, and nothing was invoked but the scan, the one
\* pkill and the one probe: no second signal, no force-kill, no retry.
IsPkill(e) == e.cmd = "pkill"
PkillCalls(t) == SelectSeq(Calls(t), IsPkill)
C23_OneSignalNoEscalation ==
  op = "stop" =>
    /\ Len(PkillCalls(trace)) <= 1
    /\ "pkill" \in Cmds(trace) =>
         /\ SubSeq(trace, 1, 2) = Run("ps", "aux", "found")
         /\ trace[3] = Spawn("pkill", "ollama serve")
    /\ "still_running" \in Kinds(out) =>
         /\ pc = "done"
         /\ exitCode = 1
         /\ out = << Line("still_running", "", "") >>
         /\ Len(trace) = 6
         /\ SubSeq(trace, 1, 4) = Run("ps", "aux", "found") \o Run("pkill", "ollama serve", "ok")
         /\ trace[5] = Spawn("fetch", "")
         /\ IsExit(trace[6]) /\ trace[6].cmd = "fetch"

C23_Witness ==
  /\ Finished("stop")
  /\ listener # NoPid
  /\ out = << Line("still_running", "", "") >>
  /\ Len(PkillCalls(trace)) = 1
  /\ exitCode = 1

\* C24: when the binary is not installed, the installer picks the install
\* command from the platform alone: on darwin it runs `brew install ollama`
\* and nothing else, on linux the official curl install script and nothing
\* else, and on any other platform it runs no install command and ends with
\* the failure report, the manual instructions and exit code 1.
NotInstalledAtCheck == Len(trace) >= 2 /\ trace[2] = Exit("version", "", "ENOENT")
InstallArgs(t) == { InstallCalls(t)[i].arg : i \in 1..Len(InstallCalls(t)) }
C24_InstallCommandByPlatform ==
  (op = "install" /\ NotInstalledAtCheck /\ pc \in { "verify", "done" }) =>
    /\ platform = "darwin" => InstallArgs(trace) = { "brew install ollama" }
    /\ platform = "linux" =>
         InstallArgs(trace) = { "curl -fsSL https://ollama.ai/install.sh | sh" }
    /\ platform \in { "darwin", "linux" } => Len(InstallCalls(trace)) = 1
    /\ platform \notin { "darwin", "linux" } =>
         /\ trace = Run("version", "", "ENOENT")
         /\ pc = "done"
         /\ exitCode = 1
         /\ out = << Line("install_failed", "", "unsupported platform"),
                     Line("manual_guidance", "", "") >>

C24_Witness ==
  /\ Finished("install")
  /\ platform = "win32"
  /\ trace = Run("version", "", "ENOENT")
  /\ "manual_guidance" \in Kinds(out)
  /\ exitCode = 1

\* C25: no installer run both reports that Ollama was installed
\* successfully and ends in failure: a finished run that printed the success
\* report made the version check after the install, the check succeeded, no
\* failure was reported and the exit code is 0.
C25_SuccessReportMeansVerified ==
  (Finished("install") /\ "installed_successfully" \in Kinds(out)) =>
    /\ trace[Len(trace)] = Exit("version", "", "ok")
    /\ "install_failed" \notin Kinds(out)
    /\ exitCode = 0

\* C26: at the moment a start run reports the service ready, logs/ollama.pid
\* exists and holds the PID of a live process, and that process is the one
\* answering the health endpoint; this holds for every start of a sequence
\* of runs, a second start without a stop in between included.
C26_ReadyStep ==
  (op' \in Starts /\ pc # "done" /\ pc' = "done" /\ "service_ready" \in Kinds(out')) =>
    /\ pidFile' # NoPid
    /\ pidFile' \in procs'
    /\ listener' = pidFile'
C26_PidFileNamesLiveService == [][C26_ReadyStep]_vars

\* C27: a finished stop run has exit code 1 only if its probe after the
\* termination attempt got an answer from the service; in every other run,
\* one where the service process exited between the scan and the pkill
\* included, the exit code is 0.
C27_StopFailsOnlyIfStillAnswering ==
  Finished("stop") =>
    (exitCode = 1 <=> ExitRes(trace, "fetch") \cap { "2xx", "non2xx" } # {})

\* C28: once the selection prompt of the Node downloader has returned, the
\* run never ends with a failure: while it pulls and lists it has not
\* exited, and when it is over its exit code is 0, however many pulls failed
\* (all of them included) and whether the closing listing succeeded or not.
C28_DownloadAlwaysExitsZero ==
  (op = "download" /\ pc # "prompt") =>
    /\ pc \in { "loop", "pulling", "listing", "done" }
    /\ exitCode = (IF pc = "done" THEN 0 ELSE -1)

C28_Witness ==
  /\ Finished("download")
  /\ Len(selectedModels) = 3
  /\ FailedPulls(trace) = { 1, 2, 3 }
  /\ ListFailed
  /\ exitCode = 0

\* C29: the Node downloader run with its default selection (all of
\* AVAILABLE_MODELS) and the shell downloader issue the same sequence of
\* ollama invocations for every pattern of pull results: what either has
\* invoked so far is the start of pull qwen2.5-coder:7b, pull
\* deepseek-coder-v2:16b, pull llama3.1, list, and a finished run has
\* invoked exactly that sequence.
OllamaCalls ==
  << Spawn("pull", "qwen2.5-coder:7b"), Spawn("pull", "deepseek-coder-v2:16b"),
     Spawn("pull", "llama3.1"), Spawn("list", "") >>
DefaultSelected == op = "download" /\ selectedModels = AVAILABLE_MODELS
TextLines(s) ==
  Cardinality({ ab \in LineBounds(s) \X LineBounds(s) :
                  /\ ab[1] < ab[2]
                  /\ \A c \in LineBounds(s) : ~(ab[1] < c /\ c < ab[2])
                  /\ \E k \in (ab[1] + 1)..(ab[2] - 1) : s[k] = "x" })
C30_NoModelsWhenHeaderOnly ==
  (Finished("check") /\ ExitRes(trace, "list") = { "ok" }) =>
    /\ TextLines(stdout) <= 1 =>
         ("no_models_installed" \in Kinds(out) /\ "total" \notin Kinds(out))
    /\ "total" \in Kinds(out) => TextLines(stdout) >= 2

====
